---- MODULE Spec2Model ----
(***************************************************************************)
(* GitHub account linking routes of EchoHub (server/routes/githubAuth.js). *)
(*                                                                         *)
(* The persisted state is the user collection; every route handler is one  *)
(* action (specification Spec).  Specification SpecConc splits the two     *)
(* writing handlers at their store read and store write, the two points    *)
(* where overlapping requests of the same user interleave.                 *)
(***************************************************************************)
EXTENDS Integers, Sequences, FiniteSets, TLC

VARIABLES
    env,        \* process.env.GITHUB_CLIENT_ID, read once at module load
    store,      \* the users collection: user id -> linkage fields
    now,        \* the clock read by new Date()
    last,       \* observation: the request handled last and what it answered
    lastMut,    \* observation: per user, the last link or unlink that completed
    lastSave,   \* observation: per user, what the call that saved last assigned
    procs       \* requests in flight between their store read and store write

vars == <<env, store, now, last, lastMut, lastSave, procs>>

----------------------------------------------------------------------------
(* Bounds and input domains *)

MaxClock == 2                       \* new Date() is read at most this often

Users == {"u1", "u2"}               \* ids of the documents in the collection
Tabs == {"tab1", "tab2"}            \* overlapping requests (two browser tabs)

Undefined == "undefined"            \* JavaScript undefined / an absent field
Null == "<null>"                    \* JavaScript null in a JSON body

\* !v of a string-or-undefined value
Falsy(v) == v \in {Undefined, ""}

FRONTEND_SUCCESS_URL == "http://localhost:5173/dashboard?github=connected"
FRONTEND_ERROR_URL == "http://localhost:5173/dashboard?github=error"

----------------------------------------------------------------------------
(* The state parameter: JSON text, base64 *)

\* JSON.stringify({ userId: id })
Stringify(id) ==
    CASE id = "u1" -> "{\"userId\":\"u1\"}"
      [] id = "u2" -> "{\"userId\":\"u2\"}"
      [] id = "u9" -> "{\"userId\":\"u9\"}"
      [] id = ""   -> "{\"userId\":\"\"}"

\* Buffer.from(text).toString('base64')
ToBase64(text) ==
    CASE text = "null"                 -> "bnVsbA=="
      [] text = "{}"                   -> "e30="
      [] text = "{\"userId\":\"\"}"    -> "eyJ1c2VySWQiOiIifQ=="
      [] text = "{\"userId\":\"u1\"}"  -> "eyJ1c2VySWQiOiJ1MSJ9"
      [] text = "{\"userId\":\"u2\"}"  -> "eyJ1c2VySWQiOiJ1MiJ9"
      [] text = "{\"userId\":\"u9\"}"  -> "eyJ1c2VySWQiOiJ1OSJ9"

\* Buffer.from(s, 'base64').toString(): never throws, characters outside the
\* alphabet are skipped and the remaining bytes become some text
FromBase64(s) ==
    CASE s = "bnVsbA=="             -> "null"
      [] s = "e30="                 -> "{}"
      [] s = "eyJ1c2VySWQiOiIifQ==" -> "{\"userId\":\"\"}"
      [] s = "eyJ1c2VySWQiOiJ1MSJ9" -> "{\"userId\":\"u1\"}"
      [] s = "eyJ1c2VySWQiOiJ1MiJ9" -> "{\"userId\":\"u2\"}"
      [] s = "eyJ1c2VySWQiOiJ1OSJ9" -> "{\"userId\":\"u9\"}"
      [] OTHER                      -> "<bytes>"

\* JSON.parse(text): ok = FALSE is the SyntaxError
JSONParse(text) ==
    CASE text = "null"                 -> [ok |-> TRUE,  isNull |-> TRUE,  userId |-> Undefined]
      [] text = "{}"                   -> [ok |-> TRUE,  isNull |-> FALSE, userId |-> Undefined]
      [] text = "{\"userId\":\"\"}"    -> [ok |-> TRUE,  isNull |-> FALSE, userId |-> ""]
      [] text = "{\"userId\":\"u1\"}"  -> [ok |-> TRUE,  isNull |-> FALSE, userId |-> "u1"]
      [] text = "{\"userId\":\"u2\"}"  -> [ok |-> TRUE,  isNull |-> FALSE, userId |-> "u2"]
      [] text = "{\"userId\":\"u9\"}"  -> [ok |-> TRUE,  isNull |-> FALSE, userId |-> "u9"]
      [] OTHER                         -> [ok |-> FALSE, isNull |-> FALSE, userId |-> Undefined]

\* the state built by GET /auth for user id
MakeState(id) == ToBase64(Stringify(id))

\* req.query of GET /callback
Codes == {Undefined, "abc"}
ErrorParams == {Undefined, "access_denied"}
States == {Undefined, "not-base64!", ToBase64("null"), ToBase64("{}"),
           MakeState("u1"), MakeState("u2"), MakeState("u9")}

----------------------------------------------------------------------------
(* Upstream (GitHub) answers *)

NotCalled == "not-called"

\* axios.post(access_token endpoint): the call rejects, or tokenResponse.data
TokenResponses ==
    { [throws |-> TRUE,  access_token |-> Undefined, error |-> Undefined],
      [throws |-> FALSE, access_token |-> Undefined, error |-> "bad_verification_code"],
      [throws |-> FALSE, access_token |-> Undefined, error |-> Undefined],
      [throws |-> FALSE, access_token |-> "tokA",    error |-> Undefined],
      [throws |-> FALSE, access_token |-> "tokB",    error |-> Undefined] }

\* the exchange request carries client_id: GITHUB_CLIENT_ID, and GitHub issues
\* no token to a request without a client id
TokenAnswers(clientId) ==
    IF Falsy(clientId) THEN {r \in TokenResponses : Falsy(r.access_token)}
    ELSE TokenResponses

NoTokenResponse == [throws |-> FALSE, access_token |-> NotCalled, error |-> NotCalled]

\* axios.get(api.github.com/user): the call rejects, or userResponse.data
ProfileResponses ==
    { [throws |-> TRUE,  login |-> Undefined, id |-> Undefined, html_url |-> Undefined],
      [throws |-> FALSE, login |-> Undefined, id |-> Undefined, html_url |-> Undefined],
      [throws |-> FALSE, login |-> "octo", id |-> "1", html_url |-> "https://github.com/octo"],
      [throws |-> FALSE, login |-> "cat",  id |-> Undefined, html_url |-> Undefined] }

NoProfileResponse == [throws |-> FALSE, login |-> NotCalled, id |-> NotCalled, html_url |-> NotCalled]

\* axios.get(api.github.com/user/repos): status 0 = resolved with data
RepoResponses ==
    { [status |-> 0,   data |-> <<>>],
      [status |-> 0,   data |-> << [id |-> "r1", name |-> "hub", full_name |-> "octo/hub",
                                    html_url |-> "https://github.com/octo/hub"] >>],
      [status |-> 401, data |-> <<>>],
      [status |-> 503, data |-> <<>>] }

----------------------------------------------------------------------------
(* The user documents (mongoose) *)

Fields == {"githubAccessToken", "githubUsername", "githubId",
           "githubProfileUrl", "githubConnectedAt"}

Unlinked == [f \in Fields |-> Undefined]

\* the token is excluded from default projections (select: false)
DefaultSelected == Fields \ {"githubAccessToken"}
\* .select('githubUsername githubConnectedAt')
StatusSelected == {"githubUsername", "githubConnectedAt"}
\* .select('+githubAccessToken')
TokenSelected == DefaultSelected \cup {"githubAccessToken"}

NoDoc == [found |-> FALSE, id |-> Undefined, vals |-> Unlinked, sel |-> {}, mod |-> {}]

\* User.findById(id).select(sel): a document holding the selected paths, no
\* path modified; null when no document has that id
FindById(st, id, sel) ==
    IF id \in DOMAIN st
    THEN [found |-> TRUE, id |-> id,
          vals |-> [f \in Fields |-> IF f \in sel THEN st[id][f] ELSE Undefined],
          sel |-> sel, mod |-> {}]
    ELSE NoDoc

\* does an assignment mark the path modified: it already is, or undefined is
\* assigned to a path that was not loaded, or the value differs from the one held
ShouldModify(doc, f, v) ==
    \/ f \in doc.mod
    \/ v = Undefined /\ f \notin doc.sel
    \/ v # doc.vals[f]

\* user.<f> = v
SetPath(doc, f, v) ==
    [doc EXCEPT !.vals[f] = v,
                !.mod = IF ShouldModify(doc, f, v) THEN @ \cup {f} ELSE @]

\* an update that is not filtered by the document's id
SaveEvery(st, doc) ==
    [u \in DOMAIN st |-> [f \in Fields |-> IF f \in doc.mod THEN doc.vals[f] ELSE st[u][f]]]

\* user.save(): the update sets / unsets the modified paths only
Save(st, doc) ==
    [st EXCEPT ![doc.id] = [f \in Fields |-> IF f \in doc.mod THEN doc.vals[f] ELSE @[f]]]

\* a save whose update lands although the call rejects
TrySaveLate(st, doc, saveThrows) == Save(st, doc)

\* await user.save() that may reject: a rejected save leaves the collection as
\* it was
TrySave(st, doc, saveThrows) == IF saveThrows THEN st ELSE Save(st, doc)

\* new Date()
DateOf(clock) == ToString(clock + 1)

----------------------------------------------------------------------------
(* HTTP responses *)

Blank ==
    [status |-> 0, kind |-> "none", location |-> Undefined, reason |-> Undefined,
     state |-> Undefined, message |-> Undefined, connected |-> FALSE,
     githubUsername |-> Undefined, connectedAt |-> Undefined, repositories |-> <<>>]

\* res.redirect(FRONTEND_SUCCESS_URL)
SuccessRedirect ==
    [Blank EXCEPT !.status = 302, !.kind = "redirect", !.location = FRONTEND_SUCCESS_URL]

\* res.redirect(`${FRONTEND_ERROR_URL}&reason=<reason>`)
ErrorRedirect(reason) ==
    [Blank EXCEPT !.status = 302, !.kind = "redirect", !.location = FRONTEND_ERROR_URL,
                  !.reason = reason]

\* res.status(status).json({ message })
JsonMessage(status, message) ==
    [Blank EXCEPT !.status = status, !.kind = "json", !.message = message]

\* res.redirect(githubAuthUrl) of GET /auth
AuthorizeRedirect(id) ==
    [Blank EXCEPT !.status = 302, !.kind = "redirect",
                  !.location = "https://github.com/login/oauth/authorize",
                  !.state = MakeState(id)]

\* a status that looks at the token, which its projection does not load
StatusBodyByToken(doc) ==
    [Blank EXCEPT !.status = 200, !.kind = "json",
                  !.connected = ~Falsy(doc.vals.githubAccessToken),
                  !.githubUsername = IF Falsy(doc.vals.githubUsername) THEN Null
                                     ELSE doc.vals.githubUsername,
                  !.connectedAt = IF Falsy(doc.vals.githubConnectedAt) THEN Null
                                  ELSE doc.vals.githubConnectedAt]

\* the body of GET /status
StatusBody(doc) ==
    [Blank EXCEPT !.status = 200, !.kind = "json",
                  !.connected = ~Falsy(doc.vals.githubUsername),
                  !.githubUsername = IF Falsy(doc.vals.githubUsername) THEN Null
                                     ELSE doc.vals.githubUsername,
                  !.connectedAt = IF Falsy(doc.vals.githubConnectedAt) THEN Null
                                  ELSE doc.vals.githubConnectedAt]

\* the body of POST /disconnect
DisconnectBody ==
    [Blank EXCEPT !.status = 200, !.kind = "json",
                  !.message = "GitHub account disconnected successfully"]

\* one entry of reposResponse.data.map(...)
RepositorySummary(repo) ==
    [id |-> repo.id, name |-> repo.name, fullName |-> repo.full_name, htmlUrl |-> repo.html_url]

\* the body of GET /repositories
RepositoriesBody(data) ==
    [Blank EXCEPT !.status = 200, !.kind = "json",
                  !.repositories = [i \in 1..Len(data) |-> RepositorySummary(data[i])]]

----------------------------------------------------------------------------
(* GET /callback, stage by stage.  A stage goes on ("go"), answers with a    *)
(* failure reason ("respond") or throws into the handler's catch ("throw"). *)

Go(userId) == [next |-> "go", reason |-> Undefined, userId |-> userId]
Respond(reason) == [next |-> "respond", reason |-> reason, userId |-> Undefined]
Throw == [next |-> "throw", reason |-> Undefined, userId |-> Undefined]

\* the checks of the query: error, code and state, the decoded state
CallbackValidate(q) ==
    IF ~Falsy(q.error) THEN Respond("oauth_denied")
    ELSE IF Falsy(q.code) \/ Falsy(q.state) THEN Respond("missing_params")
    ELSE LET decodedState == JSONParse(FromBase64(q.state)) IN
         IF ~decodedState.ok THEN Respond("invalid_state")
         ELSE IF decodedState.isNull THEN Throw    \* null.userId is a TypeError
         ELSE IF Falsy(decodedState.userId) THEN Respond("invalid_state")
         ELSE Go(decodedState.userId)

\* the token exchange and the check of its answer
ExchangeCheck(tokenResp) ==
    IF tokenResp.throws THEN Throw
    ELSE IF ~Falsy(tokenResp.error) \/ Falsy(tokenResp.access_token)
         THEN Respond("token_exchange_failed")
    ELSE Go(Undefined)

\* the profile fetch and the check of its answer
ProfileCheck(profResp) ==
    IF profResp.throws THEN Throw
    ELSE IF Falsy(profResp.login) THEN Respond("profile_fetch_failed")
    ELSE Go(Undefined)

\* the five assignments of the link
CallbackAssign(doc, access_token, githubUser, date) ==
    SetPath(SetPath(SetPath(SetPath(SetPath(doc,
        "githubAccessToken", access_token),
        "githubUsername", githubUser.login),
        "githubId", githubUser.id),
        "githubProfileUrl", githubUser.html_url),
        "githubConnectedAt", date)

\* the handler up to the lookup of the user: the first stage that does not go
\* on ends it; calls lists the outbound and store calls made so far
CallbackRead(q, tokenResp, profResp, findThrows, st) ==
    LET v == CallbackValidate(q)
        x == ExchangeCheck(tokenResp)
        y == ProfileCheck(profResp)
        user == FindById(st, v.userId, DefaultSelected)
    IN
    IF v.next # "go"
    THEN [step |-> v, userId |-> Undefined, calls |-> <<>>, user |-> NoDoc]
    ELSE IF x.next # "go"
    THEN [step |-> x, userId |-> v.userId, calls |-> <<"token">>, user |-> NoDoc]
    ELSE IF y.next # "go"
    THEN [step |-> y, userId |-> v.userId, calls |-> <<"token", "profile">>, user |-> NoDoc]
    ELSE IF findThrows
    THEN [step |-> Throw, userId |-> v.userId,
          calls |-> <<"token", "profile", "findById">>, user |-> NoDoc]
    ELSE IF ~user.found
    THEN [step |-> Respond("user_not_found"), userId |-> v.userId,
          calls |-> <<"token", "profile", "findById">>, user |-> NoDoc]
    ELSE [step |-> Go(v.userId), userId |-> v.userId,
          calls |-> <<"token", "profile", "findById">>, user |-> user]

\* an upstream or store answer exists only for a call the handler makes
Given(reached, answers, none) == IF reached THEN answers ELSE {none}
ReachesExchange(q) == CallbackValidate(q).next = "go"
ReachesProfile(q, tokenResp) ==
    ReachesExchange(q) /\ ExchangeCheck(tokenResp).next = "go"
ReachesLookup(q, tokenResp, profResp) ==
    ReachesProfile(q, tokenResp) /\ ProfileCheck(profResp).next = "go"

\* a catch block that answers like the JSON routes do
CallbackEndJson(step) ==
    IF step.next = "throw" THEN <<JsonMessage(500, "Failed to link GitHub account")>>
    ELSE <<ErrorRedirect(step.reason)>>

\* what a stage that does not go on answers: its reason, or the catch block's
CallbackEnd(step) ==
    IF step.next = "throw" THEN <<ErrorRedirect("server_error")>>
    ELSE <<ErrorRedirect(step.reason)>>

\* the record a successful link means to leave
LinkRecord(access_token, githubUser, date) ==
    [githubAccessToken |-> access_token, githubUsername |-> githubUser.login,
     githubId |-> githubUser.id, githubProfileUrl |-> githubUser.html_url,
     githubConnectedAt |-> date]

----------------------------------------------------------------------------
(* POST /disconnect *)

\* an unlink that forgets the connection date
DisconnectAssignFour(doc) ==
    SetPath(SetPath(SetPath(SetPath(doc,
        "githubAccessToken", Undefined),
        "githubUsername", Undefined),
        "githubId", Undefined),
        "githubProfileUrl", Undefined)

\* the five assignments of the unlink
DisconnectAssign(doc) ==
    SetPath(SetPath(SetPath(SetPath(SetPath(doc,
        "githubAccessToken", Undefined),
        "githubUsername", Undefined),
        "githubId", Undefined),
        "githubProfileUrl", Undefined),
        "githubConnectedAt", Undefined)

----------------------------------------------------------------------------
(* GET /repositories *)

\* a guard on the document instead of its token
NotConnectedNoUser(doc) == ~doc.found

\* the guard on the stored token
NotConnected(doc) == Falsy(doc.vals.githubAccessToken)

\* the answer to what the repository listing returned or threw
RepositoriesEnd(repoResp) ==
    IF repoResp.status = 0 THEN RepositoriesBody(repoResp.data)
    ELSE IF repoResp.status = 401
         THEN JsonMessage(401, "GitHub access token is invalid. Please reconnect your account.")
    ELSE JsonMessage(500, "Failed to fetch repositories")

----------------------------------------------------------------------------
(* GET /auth *)

QueryTokens == {Undefined, "jwt-u1", "jwt-u2", "jwt-u9", "forged"}

\* jwt.verify(token, JWT_SECRET): ok = FALSE is the thrown verification error
JwtVerify(token) ==
    CASE token = "jwt-u1" -> [ok |-> TRUE, id |-> "u1"]
      [] token = "jwt-u2" -> [ok |-> TRUE, id |-> "u2"]
      [] token = "jwt-u9" -> [ok |-> TRUE, id |-> "u9"]
      [] OTHER            -> [ok |-> FALSE, id |-> Undefined]

\* the middleware: the user id it lets through, or the 401 it answers
AuthFromQuery(token, st) ==
    IF Falsy(token)
    THEN [pass |-> FALSE, id |-> Undefined,
          response |-> JsonMessage(401, "No token, authorization denied")]
    ELSE IF ~JwtVerify(token).ok \/ ~FindById(st, JwtVerify(token).id, DefaultSelected).found
    THEN [pass |-> FALSE, id |-> Undefined,
          response |-> JsonMessage(401, "Token is not valid")]
    ELSE [pass |-> TRUE, id |-> JwtVerify(token).id, response |-> Blank]

\* the handler behind the middleware
AuthHandler(clientId, id) ==
    IF Falsy(clientId) THEN JsonMessage(500, "GitHub OAuth not configured")
    ELSE AuthorizeRedirect(id)

----------------------------------------------------------------------------
(* State *)

NoMut == [kind |-> "none", login |-> Undefined]

LastBlank ==
    [op |-> "none", user |-> Undefined,
     code |-> Undefined, state |-> Undefined, error |-> Undefined,
     tokenResp |-> NoTokenResponse, profResp |-> NoProfileResponse,
     fault |-> "none", responses |-> <<>>, calls |-> <<>>]

Idle == [pc |-> "idle", op |-> "none", doc |-> NoDoc, access_token |-> Undefined,
         githubUser |-> NoProfileResponse]

\* every user starts without the linkage fields; the client id may be unset
Init ==
    /\ env \in {Undefined, "Iv1.echohub"}
    /\ store = [u \in Users |-> Unlinked]
    /\ now = 0
    /\ last = LastBlank
    /\ lastMut = [u \in Users |-> NoMut]
    /\ lastSave = [u \in Users |-> Unlinked]
    /\ procs = [t \in Tabs |-> Idle]

\* a request handled from start to end: what it answered and what it left
Finish(l, st, clock, mut, saved) ==
    /\ last' = l
    /\ store' = st
    /\ now' = clock
    /\ lastMut' = mut
    /\ lastSave' = saved
    /\ UNCHANGED <<env, procs>>

\* a request that wrote nothing
Answer(l) == Finish(l, store, now, lastMut, lastSave)

----------------------------------------------------------------------------
(* The routes, one request at a time *)

\* GET /auth
BeginAuthorization ==
    \E token \in QueryTokens :
        LET a == AuthFromQuery(token, store)
            l == [LastBlank EXCEPT !.op = "beginAuthorization", !.user = a.id,
                                   !.calls = IF Falsy(token) \/ ~JwtVerify(token).ok
                                             THEN <<>> ELSE <<"findById">>]
        IN  IF ~a.pass
            THEN Answer([l EXCEPT !.responses = <<a.response>>])
            ELSE Answer([l EXCEPT !.responses = <<AuthHandler(env, a.id)>>])

\* GET /callback
CompleteAuthorization ==
    \E code \in Codes, state \in States, error \in ErrorParams :
      LET q == [code |-> code, state |-> state, error |-> error] IN
      \E tokenResp \in Given(ReachesExchange(q), TokenAnswers(env), NoTokenResponse) :
      \E profResp \in Given(ReachesProfile(q, tokenResp), ProfileResponses, NoProfileResponse) :
      \E findThrows \in Given(ReachesLookup(q, tokenResp, profResp), BOOLEAN, FALSE) :
        LET r == CallbackRead(q, tokenResp, profResp, findThrows, store)
            l == [LastBlank EXCEPT !.op = "completeAuthorization", !.user = r.userId,
                                   !.code = code, !.state = state, !.error = error,
                                   !.tokenResp = tokenResp, !.profResp = profResp,
                                   !.fault = IF findThrows THEN "find" ELSE "none",
                                   !.calls = r.calls]
        IN
        IF r.step.next # "go" THEN Answer([l EXCEPT !.responses = CallbackEnd(r.step)])
        ELSE
            /\ now < MaxClock
            /\ \E saveThrows \in BOOLEAN :
                LET l1 == [l EXCEPT !.calls = Append(r.calls, "save")]
                    linked == CallbackAssign(r.user, tokenResp.access_token,
                                             profResp, DateOf(now))
                IN
                IF saveThrows
                THEN Finish([l1 EXCEPT !.fault = "save", !.responses = CallbackEnd(Throw)],
                            TrySave(store, linked, TRUE), now + 1, lastMut, lastSave)
                ELSE Finish([l1 EXCEPT !.responses = <<SuccessRedirect>>],
                            TrySave(store, linked, FALSE), now + 1,
                            [lastMut EXCEPT ![r.userId] =
                                [kind |-> "link", login |-> profResp.login]],
                            [lastSave EXCEPT ![r.userId] =
                                LinkRecord(tokenResp.access_token, profResp, DateOf(now))])

\* GET /status
GetStatus ==
    \E u \in Users, findThrows \in BOOLEAN :
        LET l == [LastBlank EXCEPT !.op = "getStatus", !.user = u, !.calls = <<"findById">>] IN
        IF findThrows
        THEN Answer([l EXCEPT !.fault = "find",
                              !.responses = <<JsonMessage(500, "Failed to check GitHub status")>>])
        ELSE Answer([l EXCEPT !.responses = <<StatusBody(FindById(store, u, StatusSelected))>>])

\* POST /disconnect
Disconnect ==
    \E u \in Users, findThrows \in BOOLEAN :
        LET l == [LastBlank EXCEPT !.op = "disconnect", !.user = u, !.calls = <<"findById">>]
            failed == <<JsonMessage(500, "Failed to disconnect GitHub account")>>
        IN
        IF findThrows THEN Answer([l EXCEPT !.fault = "find", !.responses = failed])
        ELSE \E saveThrows \in BOOLEAN :
            LET l1 == [l EXCEPT !.calls = <<"findById", "save">>]
                cleared == DisconnectAssign(FindById(store, u, DefaultSelected))
            IN
            IF saveThrows
            THEN Finish([l1 EXCEPT !.fault = "save", !.responses = failed],
                        TrySave(store, cleared, TRUE), now, lastMut, lastSave)
            ELSE Finish([l1 EXCEPT !.responses = <<DisconnectBody>>],
                        TrySave(store, cleared, FALSE), now,
                        [lastMut EXCEPT ![u] = [kind |-> "unlink", login |-> Undefined]],
                        [lastSave EXCEPT ![u] = Unlinked])

\* GET /repositories
ListRepositories ==
    \E u \in Users, findThrows \in BOOLEAN :
        LET l == [LastBlank EXCEPT !.op = "listRepositories", !.user = u, !.calls = <<"findById">>]
            user == FindById(store, u, TokenSelected)
        IN
        IF findThrows
        THEN Answer([l EXCEPT !.fault = "find",
                              !.responses = <<JsonMessage(500, "Failed to fetch repositories")>>])
        ELSE IF NotConnected(user)
        THEN Answer([l EXCEPT !.responses = <<JsonMessage(400, "GitHub account not connected")>>])
        ELSE \E repoResp \in RepoResponses :
            Answer([l EXCEPT !.calls = <<"findById", "repos">>,
                             !.responses = <<RepositoriesEnd(repoResp)>>])

----------------------------------------------------------------------------
(* Overlapping requests: a writing handler reads the document at one moment *)
(* and its update reaches the collection at a later one                     *)

\* GET /callback up to the document returned by findById
CallbackLoad(t) ==
    /\ procs[t].pc = "idle"
    /\ \E code \in Codes, state \in States, error \in ErrorParams :
         LET q == [code |-> code, state |-> state, error |-> error] IN
         \E tokenResp \in Given(ReachesExchange(q), TokenAnswers(env), NoTokenResponse) :
         \E profResp \in Given(ReachesProfile(q, tokenResp), ProfileResponses, NoProfileResponse) :
         \E findThrows \in Given(ReachesLookup(q, tokenResp, profResp), BOOLEAN, FALSE) :
           LET r == CallbackRead(q, tokenResp, profResp, findThrows, store) IN
           IF r.step.next # "go" THEN UNCHANGED procs
           ELSE procs' = [procs EXCEPT ![t] =
                    [pc |-> "loaded", op |-> "completeAuthorization", doc |-> r.user,
                     access_token |-> tokenResp.access_token, githubUser |-> profResp]]
    /\ UNCHANGED <<env, store, now, last, lastMut, lastSave>>

\* GET /callback from the assignments to the end of save()
CallbackStore(t) ==
    /\ procs[t].pc = "loaded"
    /\ procs[t].op = "completeAuthorization"
    /\ now < MaxClock
    /\ \E saveThrows \in BOOLEAN :
         LET p == procs[t]
             linked == CallbackAssign(p.doc, p.access_token, p.githubUser, DateOf(now))
         IN
         /\ store' = TrySave(store, linked, saveThrows)
         /\ lastSave' = IF saveThrows THEN lastSave
                        ELSE [lastSave EXCEPT ![p.doc.id] =
                                 LinkRecord(p.access_token, p.githubUser, DateOf(now))]
    /\ now' = now + 1
    /\ procs' = [procs EXCEPT ![t] = Idle]
    /\ UNCHANGED <<env, last, lastMut>>

\* POST /disconnect up to the document returned by findById
DisconnectLoad(t) ==
    /\ procs[t].pc = "idle"
    /\ \E u \in Users, findThrows \in BOOLEAN :
         IF findThrows THEN UNCHANGED procs
         ELSE procs' = [procs EXCEPT ![t] =
                  [Idle EXCEPT !.pc = "loaded", !.op = "disconnect",
                               !.doc = FindById(store, u, DefaultSelected)]]
    /\ UNCHANGED <<env, store, now, last, lastMut, lastSave>>

\* POST /disconnect from the assignments to the end of save()
DisconnectStore(t) ==
    /\ procs[t].pc = "loaded"
    /\ procs[t].op = "disconnect"
    /\ \E saveThrows \in BOOLEAN :
         /\ store' = TrySave(store, DisconnectAssign(procs[t].doc), saveThrows)
         /\ lastSave' = IF saveThrows THEN lastSave
                        ELSE [lastSave EXCEPT ![procs[t].doc.id] = Unlinked]
    /\ procs' = [procs EXCEPT ![t] = Idle]
    /\ UNCHANGED <<env, now, last, lastMut>>

NextConc ==
    \/ \E t \in Tabs : DisconnectLoad(t)
    \/ \E t \in Tabs : CallbackLoad(t)
    \/ \E t \in Tabs : CallbackStore(t)
    \/ \E t \in Tabs : DisconnectStore(t)

SpecConc == Init /\ [][NextConc]_vars

Next ==
    \/ BeginAuthorization
    \/ CompleteAuthorization
    \/ GetStatus
    \/ Disconnect
    \/ ListRepositories

Spec == Init /\ [][Next]_vars

----------------------------------------------------------------------------
(* Properties *)

\* how a GET /callback ended: "success" or the reason of its redirect
Outcome(l) ==
    IF l.responses = <<SuccessRedirect>> THEN "success" ELSE l.responses[1].reason

FailureReasons ==
    {"oauth_denied", "missing_params", "invalid_state", "token_exchange_failed",
     "profile_fetch_failed", "user_not_found", "server_error"}

\* the state decodes to a value that carries a userId field
CarriesUserId(s) ==
    LET decoded == JSONParse(FromBase64(s)) IN
    decoded.ok /\ ~decoded.isNull /\ decoded.userId # Undefined

\* the record holds a link: the name getStatus reports and the token
IsLinked(r) == r.githubUsername # Undefined /\ r.githubAccessToken # Undefined

\* C1: in every reachable state, each user record has the linkage fields
\* either all set or all absent
C1_AllOrNothing ==
    \A u \in Users :
        \/ \A f \in Fields : store[u][f] = Undefined
        \/ \A f \in Fields : store[u][f] # Undefined

\* C2: a completeAuthorization that ends in a failure reason leaves every
\* user record as it was before the call
C2_FailureWritesNothing ==
    [][(last'.op = "completeAuthorization" /\ Outcome(last') \in FailureReasons)
        => store' = store]_vars

\* a call failed at save() with server_error while some user is linked
C2_Witness ==
    /\ last.op = "completeAuthorization"
    /\ last.fault = "save"
    /\ Outcome(last) = "server_error"
    /\ \E u \in Users : IsLinked(store[u])

\* C3: every completeAuthorization call answers exactly once, with a redirect
\* to the frontend: the success URL, or the error URL with one documented reason
C3_AlwaysOneRedirect ==
    last.op = "completeAuthorization" =>
        /\ Len(last.responses) = 1
        /\ last.responses[1].kind = "redirect"
        /\ last.responses[1].status = 302
        /\ \/ /\ last.responses[1].location = FRONTEND_SUCCESS_URL
              /\ last.responses[1].reason = Undefined
           \/ /\ last.responses[1].location = FRONTEND_ERROR_URL
              /\ last.responses[1].reason \in FailureReasons

\* a call whose profile fetch threw was answered
C3_Witness ==
    /\ last.op = "completeAuthorization"
    /\ last.profResp.throws
    /\ Len(last.responses) = 1

\* C4: with no errorParam and with code and state present, a state that does
\* not decode to a value carrying a userId ends in invalid_state, and no
\* outbound call is made
C4_UndecodableStateIsInvalid ==
    (/\ last.op = "completeAuthorization"
     /\ Falsy(last.error) /\ ~Falsy(last.code) /\ ~Falsy(last.state)
     /\ ~CarriesUserId(last.state))
    => (Outcome(last) = "invalid_state" /\ last.calls = <<>>)

\* C5: a getStatus that follows a successful link of the user reports
\* connected with the login of that link; one that follows a disconnect
\* reports not connected and a null name
C5_StatusFollowsLink ==
    (last.op = "getStatus" /\ last.fault = "none") =>
        LET body == last.responses[1]
            mut == lastMut[last.user]
        IN
        /\ body.status = 200
        /\ mut.kind = "link" =>
              body.connected /\ body.githubUsername = mut.login
        /\ mut.kind = "unlink" =>
              ~body.connected /\ body.githubUsername = Null

\* a getStatus answered for a user whose last change was a link
C5_Witness ==
    /\ last.op = "getStatus"
    /\ last.fault = "none"
    /\ lastMut[last.user].kind = "link"

\* C6: disconnect answers the success acknowledgment and leaves the record
\* without linkage fields; on a record already unlinked it changes nothing
C6_DisconnectIdempotent ==
    [][(last'.op = "disconnect" /\ last'.fault = "none") =>
        /\ last'.responses = <<DisconnectBody>>
        /\ store'[last'.user] = Unlinked
        /\ store[last'.user] = Unlinked => store' = store]_vars

\* a disconnect answered for a user that was unlinked by the call before it
C6_Witness ==
    /\ last.op = "disconnect"
    /\ last.fault = "none"
    /\ now = 0
    /\ store[last.user] = Unlinked

\* C7: listRepositories for a user without a stored token answers 400 and
\* makes no outbound call
C7_NotLinkedIsClientError ==
    (/\ last.op = "listRepositories"
     /\ last.fault = "none"
     /\ store[last.user].githubAccessToken = Undefined)
    => /\ last.responses = <<JsonMessage(400, "GitHub account not connected")>>
       /\ last.calls = <<"findById">>

\* a listRepositories answered for a user without a token
C7_Witness ==
    /\ last.op = "listRepositories"
    /\ last.fault = "none"
    /\ store[last.user].githubAccessToken = Undefined

\* C8: a record changes only by a successful completeAuthorization whose state
\* names that user, which leaves it linked, or by that user's disconnect, which
\* takes it from linked to unlinked
C8_Lifecycle ==
    [][\A u \in Users : store'[u] # store[u] =>
        \/ /\ last'.op = "completeAuthorization"
           /\ Outcome(last') = "success"
           /\ JSONParse(FromBase64(last'.state)).userId = u
           /\ IsLinked(store'[u])
        \/ /\ last'.op = "disconnect"
           /\ last'.user = u
           /\ IsLinked(store[u])
           /\ store'[u] = Unlinked]_vars

\* a link succeeded for one user while the other user is linked
C8_Witness ==
    /\ last.op = "completeAuthorization"
    /\ Outcome(last) = "success"
    /\ \A u \in Users : IsLinked(store[u])

\* C9: once no request is in flight, each record is what the call that saved
\* last assigned: all of that link's values, or no linkage field
C9_LastWriteWins ==
    (\A t \in Tabs : procs[t].pc = "idle") =>
        \A u \in Users : store[u] = lastSave[u]

\* C10: the reason is that of the first failing check, in the order error,
\* code and state, decoded state, token, profile, user; the user store is
\* consulted only after both GitHub calls answered well
C10_FirstFailingCheck ==
    last.op = "completeAuthorization" =>
        /\ ~Falsy(last.error) => Outcome(last) = "oauth_denied"
        /\ (Falsy(last.error) /\ (Falsy(last.code) \/ Falsy(last.state)))
              => Outcome(last) = "missing_params"
        /\ (Falsy(last.error) /\ ~Falsy(last.code) /\ ~Falsy(last.state)) =>
              IF ~CarriesUserId(last.state) THEN Outcome(last) = "invalid_state"
              ELSE IF last.tokenResp.throws THEN TRUE
              ELSE IF ~Falsy(last.tokenResp.error) \/ Falsy(last.tokenResp.access_token)
                   THEN Outcome(last) = "token_exchange_failed"
              ELSE IF last.profResp.throws THEN TRUE
              ELSE IF Falsy(last.profResp.login) THEN Outcome(last) = "profile_fetch_failed"
              ELSE IF last.fault # "none" THEN TRUE
              ELSE IF JSONParse(FromBase64(last.state)).userId \notin Users
                   THEN Outcome(last) = "user_not_found"
              ELSE Outcome(last) = "success"
        /\ (\E i \in 1..Len(last.calls) : last.calls[i] = "findById") =>
              /\ SubSeq(last.calls, 1, 3) = <<"token", "profile", "findById">>
              /\ ~Falsy(last.tokenResp.access_token) /\ Falsy(last.tokenResp.error)
              /\ ~Falsy(last.profResp.login)

====
